---- MODULE Spec2Model ----
(***************************************************************************)
(* MEI por municipio (src/app.py): the run of the "Rodar analise" button.  *)
(* discover the latest monthly folder -> locate the two archives ->        *)
(* download -> read the CSV members -> filter the municipality -> join     *)
(* with the deduplicated Simples table -> summarise -> CNAE ranking.       *)
(*                                                                         *)
(* Text is a tuple of one-character strings, so that lower(), strip(),     *)
(* zfill(), startswith() and string comparison are computed as Python      *)
(* computes them.  A table is [columns, rows]: the header names and the    *)
(* rows, each row a tuple of cells in header order.  A cell is a text, or  *)
(* one of the markers NaN (missing value), True, False.                    *)
(***************************************************************************)
EXTENDS Integers, Sequences, FiniteSets, TLC

NaN == <<"NaN">>
True == <<"True">>
False == <<"False">>
None == <<"None">>

\* ----------------------------------------------------------------- text
\* The characters the model uses, in code-point order.
Alphabet == <<" ","-",".","/","0","1","2","3","4","5","6","7","8","9","A","B","C","D","E","F","G","H","I","J","K","L","M","N","O","P","Q","R","S","T","U","V","W","X","Y","Z","_","a","b","c","d","e","f","g","h","i","j","k","l","m","n","o","p","q","r","s","t","u","v","w","x","y","z">>

OrdOf == [c \in {Alphabet[i] : i \in 1..Len(Alphabet)} |->
            CHOOSE i \in 1..Len(Alphabet) : Alphabet[i] = c]

\* ord(c), as a position in Alphabet
Ord(c) == OrdOf[c]

IsDigit(c) == c \in {"0", "1", "2", "3", "4", "5", "6", "7", "8", "9"}

DigitVal(c) == Ord(c) - Ord("0")

IsUpperChar(c) == Ord(c) >= Ord("A") /\ Ord(c) <= Ord("Z")

IsLowerChar(c) == Ord(c) >= Ord("a") /\ Ord(c) <= Ord("z")

LowerChar(c) == IF IsUpperChar(c) THEN Alphabet[Ord(c) + (Ord("a") - Ord("A"))] ELSE c

UpperChar(c) == IF IsLowerChar(c) THEN Alphabet[Ord(c) - (Ord("a") - Ord("A"))] ELSE c

\* str.lower() / str.upper()
Lower(s) == [i \in 1..Len(s) |-> LowerChar(s[i])]

Upper(s) == [i \in 1..Len(s) |-> UpperChar(s[i])]

\* str.startswith / str.endswith
StartsWith(s, p) == Len(s) >= Len(p) /\ SubSeq(s, 1, Len(p)) = p

EndsWith(s, p) == Len(s) >= Len(p) /\ SubSeq(s, Len(s) - Len(p) + 1, Len(s)) = p

\* p occurs in s (the `in` operator on strings)
Contains(s, p) == \E i \in 1..(Len(s) - Len(p) + 1) : SubSeq(s, i, i + Len(p) - 1) = p

\* os.path.basename: what follows the last "/"
Basename(s) ==
    LET slashes == {i \in 1..Len(s) : s[i] = "/"}
    IN IF slashes = {} THEN s
       ELSE SubSeq(s, (CHOOSE i \in slashes : \A j \in slashes : j <= i) + 1, Len(s))

\* str.strip(): leading and trailing blanks removed
Strip(s) ==
    LET keep == {i \in 1..Len(s) : s[i] # " "}
    IN IF keep = {} THEN <<>>
       ELSE SubSeq(s, CHOOSE i \in keep : \A j \in keep : i <= j,
                      CHOOSE i \in keep : \A j \in keep : j <= i)

\* str.zfill(w): zeros on the left up to width w, longer text unchanged
Zfill(s, w) == IF Len(s) >= w THEN s ELSE [i \in 1..(w - Len(s)) |-> "0"] \o s

\* a < b as Python compares str: by code point, a proper prefix first
StrLess(a, b) ==
    \E i \in 1..(Len(b)) :
        /\ \A j \in 1..(i - 1) : j <= Len(a) /\ a[j] = b[j]
        /\ Len(a) >= i - 1
        /\ (Len(a) = i - 1 \/ Ord(a[i]) < Ord(b[i]))

\* pandas .str accessor methods propagate a missing value
PdUpper(v) == IF v = NaN THEN NaN ELSE Upper(v)

PdZfill(v, w) == IF v = NaN THEN NaN ELSE Zfill(v, w)

\* Series + Series on text: a missing operand makes the result missing
PdConcat(a, b) == IF a = NaN \/ b = NaN THEN NaN ELSE a \o b

\* astype(str): a missing value becomes the text "nan"
AsStr(v) == IF v = NaN THEN <<"n","a","n">> ELSE v


\* a stable sort of s under the strict weak order Less (list.sort, sort_values
\* on several keys): elements that compare equal keep their input order
StableSort(s, Less(_, _)) ==
    LET n == Len(s)
        Rank(i) == 1 + Cardinality({j \in 1..n :
                        Less(s[j], s[i]) \/ (~Less(s[i], s[j]) /\ j < i)})
    IN [k \in 1..n |-> s[CHOOSE i \in 1..n : Rank(i) = k]]

\* the elements of s that satisfy Test, in order (a list comprehension)
Filter(s, Test(_)) == SelectSeq(s, Test)

RECURSIVE Flatten(_)
Flatten(ss) == IF ss = <<>> THEN <<>> ELSE Head(ss) \o Flatten(Tail(ss))

\* ------------------------------------------------- rfb_latest_folder
\* re.match on four digits, "-", two digits, an optional "/", then the end
IsPeriodHref(h) ==
    /\ Len(h) \in {7, 8}
    /\ \A i \in {1, 2, 3, 4, 6, 7} : IsDigit(h[i])
    /\ h[5] = "-"
    /\ Len(h) = 8 => h[8] = "/"

\* m.group(1)
PeriodOf(h) == SubSeq(h, 1, 7)

YearOf(p) == 1000 * DigitVal(p[1]) + 100 * DigitVal(p[2]) + 10 * DigitVal(p[3]) + DigitVal(p[4])

MonthOf(p) == 10 * DigitVal(p[6]) + DigitVal(p[7])

\* dtparse.parse(s + "-01") returns a datetime only for a calendar month of a
\* year from 1 on; otherwise datetime() refuses the fields and parse raises
Parsable(p) == YearOf(p) >= 1 /\ MonthOf(p) >= 1 /\ MonthOf(p) <= 12

\* the order of the datetimes the sort key returns
PeriodBefore(p, q) ==
    YearOf(p) < YearOf(q) \/ (YearOf(p) = YearOf(q) /\ MonthOf(p) < MonthOf(q))

\* variant: the sort left out, the last folder of the page returned
rfb_latest_folder_unsorted(hrefs) ==
    LET matching == Filter(hrefs, IsPeriodHref)
        folders == [i \in 1..Len(matching) |-> PeriodOf(matching[i])]
    IN IF \E i \in 1..Len(folders) : ~Parsable(folders[i]) THEN <<"ParserError">>
       ELSE IF folders = <<>> THEN <<"RuntimeError">>
       ELSE folders[Len(folders)]

\* the result, or the exception raised
rfb_latest_folder(hrefs) ==
    LET matching == Filter(hrefs, IsPeriodHref)
        folders == [i \in 1..Len(matching) |-> PeriodOf(matching[i])]
    IN IF \E i \in 1..Len(folders) : ~Parsable(folders[i]) THEN <<"ParserError">>
       ELSE IF folders = <<>> THEN <<"RuntimeError">>
       ELSE LET sorted == StableSort(folders, PeriodBefore)
            IN sorted[Len(sorted)]

IsException(v) == v \in {<<"ParserError">>, <<"RuntimeError">>, <<"HTTPError">>}

\* ---------------------------------------------------- rfb_month_urls
\* re.search, ignoring case: the word, then anything, then ".zip" at the end
MatchesZip(h, word) ==
    LET l == Lower(h)
    IN /\ EndsWith(l, <<".","z","i","p">>)
       /\ \E i \in 1..Len(l) :
            /\ i + Len(word) - 1 <= Len(l) - 4
            /\ SubSeq(l, i, i + Len(word) - 1) = word

urljoin(folder, h) == folder \o <<"/">> \o h

\* pick(pattern): the first href that matches, or None
pick(folder, hrefs, word) ==
    LET hits == {i \in 1..Len(hrefs) : MatchesZip(hrefs[i], word)}
    IN IF hits = {} THEN None
       ELSE urljoin(folder, hrefs[CHOOSE i \in hits : \A j \in hits : i <= j])

\* if not urls["estab"] or not urls["simples"]
UrlsMissing(u) == u.estab = None \/ u.simples = None

rfb_month_urls(folder, hrefs) ==
    LET given == SelectSeq(hrefs, LAMBDA h : h # <<>>)
    IN [estab |-> pick(folder, given, <<"e","s","t","a","b","e","l","e","c","i","m","e","n","t","o">>),
        simples |-> pick(folder, given, <<"s","i","m","p","l","e","s">>)]

\* --------------------------------------------- _concat_csvs_from_zip
\* A ZIP is [columns, members]: the header line its CSV members share and the
\* members in archive order, each [filename, rows].
\* variant: the extension not looked at
IsCsvMember_any(m) == TRUE

IsCsvMember(m) == EndsWith(Lower(m.filename), <<".","c","s","v">>)

HasWantedPrefix(m, wanted_prefixes) ==
    \E k \in 1..Len(wanted_prefixes) :
        StartsWith(Lower(Basename(m.filename)), wanted_prefixes[k])

\* the members read: picked
PickedMembers(zip, wanted_prefixes) ==
    LET members == Filter(zip.members, IsCsvMember)
    IN SelectSeq(members, LAMBDA m : HasWantedPrefix(m, wanted_prefixes))

\* variant: the empty selection not refused
NonePicked_never(zip, wanted_prefixes) == FALSE

\* if not picked: raise RuntimeError(...)
NonePicked(zip, wanted_prefixes) == PickedMembers(zip, wanted_prefixes) = <<>>

\* the table returned when some member is picked: the chunks of the picked
\* members concatenated, the column names stripped and lower-cased
concat_csvs_from_zip(zip, wanted_prefixes) ==
    LET picked == PickedMembers(zip, wanted_prefixes)
    IN [columns |-> [i \in 1..Len(zip.columns) |-> Lower(Strip(zip.columns[i]))],
        rows |-> Flatten([i \in 1..Len(picked) |-> picked[i].rows])]

\* --------------------------------------------------------- tables
HasCol(t, name) == \E i \in 1..Len(t.columns) : t.columns[i] = name

ColIdx(t, name) == CHOOSE i \in 1..Len(t.columns) : t.columns[i] = name

\* row[name]
Cell(t, row, name) == row[ColIdx(t, name)]

\* df[name] = f(row): the column replaced, or appended when new
SetCol(t, name, F(_)) ==
    IF HasCol(t, name)
    THEN [t EXCEPT !.rows = [i \in 1..Len(t.rows) |->
                        [t.rows[i] EXCEPT ![ColIdx(t, name)] = F(t.rows[i])]]]
    ELSE [columns |-> Append(t.columns, name),
          rows |-> [i \in 1..Len(t.rows) |-> Append(t.rows[i], F(t.rows[i]))]]

\* [c for c in need if c not in df.columns]
MissingCols(t, need) == SelectSeq(need, LAMBDA c : ~HasCol(t, c))


\* ------------------------------------------- the run: validate, filter
need_estab == <<<<"c","n","p","j","_","b","a","s","i","c","o">>, <<"c","n","p","j","_","o","r","d","e","m">>, <<"c","n","p","j","_","d","v">>, <<"m","u","n","i","c","i","p","i","o">>, <<"u","f">>>>

need_s == <<<<"c","n","p","j","_","b","a","s","i","c","o">>, <<"o","p","c","a","o","_","p","e","l","o","_","m","e","i">>, <<"d","a","t","a","_","o","p","c","a","o","_","m","e","i">>, <<"d","a","t","a","_","e","x","c","l","u","s","a","o","_","m","e","i">>>>

BasicoWidth == 8
OrdemWidth == 4
DvWidth == 2
MunicipioWidth == 7

\* estab["cnpj_completo"] = ...; estab["municipio"] = ...
Prepare(estab) ==
    LET t1 == SetCol(estab, <<"c","n","p","j","_","c","o","m","p","l","e","t","o">>, LAMBDA r :
                PdConcat(PdConcat(PdZfill(Cell(estab, r, <<"c","n","p","j","_","b","a","s","i","c","o">>), BasicoWidth),
                                  PdZfill(Cell(estab, r, <<"c","n","p","j","_","o","r","d","e","m">>), OrdemWidth)),
                         PdZfill(Cell(estab, r, <<"c","n","p","j","_","d","v">>), DvWidth)))
    IN SetCol(t1, <<"m","u","n","i","c","i","p","i","o">>, LAMBDA r :
                Zfill(AsStr(Cell(t1, r, <<"m","u","n","i","c","i","p","i","o">>)), MunicipioWidth))

\* mask, for one row of the prepared table
Mask(t, r, m_ibge, sel_uf) ==
    /\ Cell(t, r, <<"m","u","n","i","c","i","p","i","o">>) = Zfill(m_ibge, MunicipioWidth)
    /\ PdUpper(Cell(t, r, <<"u","f">>)) = Upper(sel_uf)

\* estab.loc[mask, :]
FilterMun(t, m_ibge, sel_uf) ==
    [t EXCEPT !.rows = SelectSeq(t.rows, LAMBDA r : Mask(t, r, m_ibge, sel_uf))]

\* cnae_col: the first column naming the main CNAE, else cnae_fiscal, else None
CnaeCol(t) ==
    LET cnae_cols == SelectSeq(t.columns,
                        LAMBDA c : Contains(c, <<"c","n","a","e">>) /\ Contains(c, <<"p","r","i","n","c","i","p","a","l">>))
    IN IF cnae_cols # <<>> THEN cnae_cols[1]
       ELSE IF HasCol(t, <<"c","n","a","e","_","f","i","s","c","a","l">>) THEN <<"c","n","a","e","_","f","i","s","c","a","l">> ELSE None

\* ------------------------------------------------------ simples_last
\* the order of sort_values: a missing value goes last whatever the direction
CellBeforeAsc(a, b) == a # NaN /\ (b = NaN \/ StrLess(a, b))

CellBeforeDesc(a, b) == a # NaN /\ (b = NaN \/ StrLess(b, a))

\* True before False (is_mei descending)
FlagBefore(a, b) == a = True /\ b = False

\* variant: the date sorted before the flag
SimplesBefore_dateFirst(r1, r2) ==
    \/ CellBeforeAsc(r1[1], r2[1])
    \/ /\ r1[1] = r2[1]
       /\ \/ CellBeforeDesc(r1[3], r2[3])
          \/ r1[3] = r2[3] /\ FlagBefore(r1[5], r2[5])

\* rows are <<cnpj_basico, opcao_pelo_mei, data_opcao_mei, data_exclusao_mei, is_mei>>
SimplesBefore(r1, r2) ==
    \/ CellBeforeAsc(r1[1], r2[1])
    \/ /\ r1[1] = r2[1]
       /\ \/ FlagBefore(r1[5], r2[5])
          \/ r1[5] = r2[5] /\ CellBeforeDesc(r1[3], r2[3])

\* variant: no row dropped
DropDuplicates_keepAll(rows) == rows

\* variant: duplicates judged on cnpj_basico and is_mei together
DropDuplicates_byBasicoAndFlag(rows) ==
    LET keep == {i \in 1..Len(rows) : \A j \in 1..(i - 1) :
                    rows[j][1] # rows[i][1] \/ rows[j][5] # rows[i][5]}
        F[i \in 0..Len(rows)] ==
            IF i = 0 THEN <<>> ELSE IF i \in keep THEN Append(F[i - 1], rows[i]) ELSE F[i - 1]
    IN F[Len(rows)]

\* drop_duplicates(subset=["cnpj_basico"], keep="first")
DropDuplicates(rows) ==
    LET keep == {i \in 1..Len(rows) : \A j \in 1..(i - 1) : rows[j][1] # rows[i][1]}
        F[i \in 0..Len(rows)] ==
            IF i = 0 THEN <<>> ELSE IF i \in keep THEN Append(F[i - 1], rows[i]) ELSE F[i - 1]
    IN F[Len(rows)]

\* is_mei = d["opcao_pelo_mei"].str.upper().eq("S")
IsMeiFlag(v) == IF PdUpper(v) = <<"S">> THEN True ELSE False

\* the four columns selected, is_mei assigned
SimplesFlagged(simples) ==
    [i \in 1..Len(simples.rows) |->
        LET r == simples.rows[i]
        IN <<Cell(simples, r, <<"c","n","p","j","_","b","a","s","i","c","o">>), Cell(simples, r, <<"o","p","c","a","o","_","p","e","l","o","_","m","e","i">>),
             Cell(simples, r, <<"d","a","t","a","_","o","p","c","a","o","_","m","e","i">>), Cell(simples, r, <<"d","a","t","a","_","e","x","c","l","u","s","a","o","_","m","e","i">>),
             IsMeiFlag(Cell(simples, r, <<"o","p","c","a","o","_","p","e","l","o","_","m","e","i">>))>>]

SimplesLast(simples) ==
    [columns |-> Append(need_s, <<"i","s","_","m","e","i">>),
     rows |-> DropDuplicates(StableSort(SimplesFlagged(simples), SimplesBefore))]

\* --------------------------------------------------------- merge
\* estab_mun.merge(simples_last[[...]], on="cnpj_basico", how="left"): every
\* left row once per right row with its key, in right order, and once with
\* missing values when there is none
MergeRow(left, r, right) ==
    LET key == Cell(left, r, <<"c","n","p","j","_","b","a","s","i","c","o">>)
        hits == SelectSeq(right.rows, LAMBDA s : s[1] = key)
    IN IF hits = <<>> THEN << r \o <<NaN, NaN, NaN>> >>
       ELSE [k \in 1..Len(hits) |-> r \o <<hits[k][5], hits[k][3], hits[k][4]>>]

\* variant: the right table attached row by row, by position
Merge_byPosition(left, right) ==
    [columns |-> left.columns \o <<<<"i","s","_","m","e","i">>, <<"d","a","t","a","_","o","p","c","a","o","_","m","e","i">>, <<"d","a","t","a","_","e","x","c","l","u","s","a","o","_","m","e","i">>>>,
     rows |-> [i \in 1..Len(left.rows) |->
                IF i <= Len(right.rows)
                THEN left.rows[i] \o <<right.rows[i][5], right.rows[i][3], right.rows[i][4]>>
                ELSE left.rows[i] \o <<NaN, NaN, NaN>>]]

Merge(left, right) ==
    [columns |-> left.columns \o <<<<"i","s","_","m","e","i">>, <<"d","a","t","a","_","o","p","c","a","o","_","m","e","i">>, <<"d","a","t","a","_","e","x","c","l","u","s","a","o","_","m","e","i">>>>,
     rows |-> Flatten([i \in 1..Len(left.rows) |-> MergeRow(left, left.rows[i], right)])]

\* out["is_mei"] = out["is_mei"].fillna(False)
FillnaFalse(t) ==
    SetCol(t, <<"i","s","_","m","e","i">>, LAMBDA r :
        IF Cell(t, r, <<"i","s","_","m","e","i">>) = NaN THEN False ELSE Cell(t, r, <<"i","s","_","m","e","i">>))

\* -------------------------------------------------------- resumo
\* (total_mei / total_estab).round(4), in ten-thousandths; a zero divisor
\* gives inf, or nan for 0 / 0
Round4(num, den) ==
    IF den = 0 THEN [finite |-> FALSE, nan |-> num = 0, e4 |-> 0]
    ELSE LET q == (num * 10000) \div den
             rem == (num * 10000) % den
         IN [finite |-> TRUE, nan |-> FALSE,
             e4 |-> IF 2 * rem > den \/ (2 * rem = den /\ q % 2 = 1) THEN q + 1 ELSE q]

\* nunique: the distinct values, a missing value not counted
Nunique(cells) == Cardinality({cells[i] : i \in 1..Len(cells)} \ {NaN})

GroupBefore(g, h) == StrLess(g[1], h[1]) \/ (g[1] = h[1] /\ StrLess(g[2], h[2]))

\* out.groupby(["municipio", "uf"], as_index=False).agg(...) and perc_mei: one
\* row per (municipio, uf) present, in key order
Resumo(out) ==
    LET keyOf(r) == <<Cell(out, r, <<"m","u","n","i","c","i","p","i","o">>), Cell(out, r, <<"u","f">>)>>
        keys == {keyOf(out.rows[i]) : i \in 1..Len(out.rows)}
        groups == {g \in keys : g[1] # NaN /\ g[2] # NaN}
        Rank(g) == 1 + Cardinality({h \in groups : GroupBefore(h, g)})
        rowsOf(g) == SelectSeq(out.rows, LAMBDA r : keyOf(r) = g)
        total_estab(g) == Nunique([i \in 1..Len(rowsOf(g)) |->
                                    Cell(out, rowsOf(g)[i], <<"c","n","p","j","_","c","o","m","p","l","e","t","o">>)])
        total_mei(g) == Len(SelectSeq(rowsOf(g), LAMBDA r : Cell(out, r, <<"i","s","_","m","e","i">>) = True))
    IN [k \in 1..Cardinality(groups) |->
          LET g == CHOOSE h \in groups : Rank(h) = k
          IN [municipio |-> g[1], uf |-> g[2],
              total_estab |-> total_estab(g), total_mei |-> total_mei(g),
              perc_mei |-> Round4(total_mei(g), total_estab(g))]]

\* the three metrics: the first row of resumo
Metrics(resumo) ==
    [total_estab |-> resumo[1].total_estab, total_mei |-> resumo[1].total_mei,
     perc_mei |-> resumo[1].perc_mei]


\* ----------------------------------------------------------- top
\* .fillna("NA").astype(str).str.strip().replace("", "NA")
CnaeLabel(v) ==
    LET stripped == Strip(IF v = NaN THEN <<"N","A">> ELSE v)
    IN IF stripped = <<>> THEN <<"N","A">> ELSE stripped

\* the labels of the rows with is_mei, in row order
MeiLabels(out, col) ==
    LET mei == SelectSeq(out.rows, LAMBDA r : Cell(out, r, <<"i","s","_","m","e","i">>) = True)
    IN [i \in 1..Len(mei) |-> CnaeLabel(Cell(out, mei[i], col))]

\* value_counts(): how often each label occurs
ValueCounts(labels) ==
    [c \in {labels[i] : i \in 1..Len(labels)} |->
        Cardinality({i \in 1..Len(labels) : labels[i] = c})]

\* sort_values with the default kind (quicksort, not stable): every
\* arrangement of S in count order, descending or ascending; labels with
\* equal counts may come out in any order
RECURSIVE SortedOrders(_, _, _)
SortedOrders(S, cnt, descending) ==
    IF S = {} THEN {<<>>}
    ELSE LET firsts == {x \in S : \A y \in S :
                            IF descending THEN cnt[y] <= cnt[x] ELSE cnt[x] <= cnt[y]}
         IN UNION {{<<x>> \o t : t \in SortedOrders(S \ {x}, cnt, descending)} : x \in firsts}

\* variant: nothing cut
HeadN_all(s, n) == s

\* Series.head(n)
HeadN(s, n) == SubSeq(s, 1, IF n < Len(s) THEN n ELSE Len(s))

\* value_counts().head(top_n).sort_values(): the results the run can give,
\* each a sequence of [cnae, count]
TopOutcomes(out, col, n) ==
    LET cnt == ValueCounts(MeiLabels(out, col))
        ranked == SortedOrders(DOMAIN cnt, cnt, TRUE)
        heads == {HeadN(v, n) : v \in ranked}
        kept == {{h[i] : i \in 1..Len(h)} : h \in heads}
        finals == UNION {SortedOrders(K, cnt, FALSE) : K \in kept}
    IN {[i \in 1..Len(f) |-> [cnae |-> f[i], count |-> cnt[f[i]]]] : f \in finals}

\* ------------------------------------------------------------ state
VARIABLES
    listing,        \* the hrefs of the RFB directory page
    month_hrefs,    \* the hrefs of the month's page
    estab_zip,      \* the archive behind the estabelecimentos URL
    simples_zip,    \* the archive behind the simples URL
    municipio_ibge, \* sidebar: the municipality code
    uf,             \* sidebar: the state
    top_n,          \* sidebar: the slider
    pc,             \* where the run is
    done,           \* the stages completed, in order
    raised,         \* the exception shown, None when none
    folder, urls, zips,
    estab, simples, estab_mun, cnae_col, simples_last, out,
    resumo,         \* the summary table, <<>> until computed
    shown,          \* the metrics shown, <<>> until shown
    top             \* the CNAE ranking plotted, <<>> until computed

world == <<listing, month_hrefs, estab_zip, simples_zip, municipio_ibge, uf, top_n>>

vars == <<listing, month_hrefs, estab_zip, simples_zip, municipio_ibge, uf, top_n,
          pc, done, raised, folder, urls, zips, estab, simples, estab_mun,
          cnae_col, simples_last, out, resumo, shown, top>>

EmptyTable == [columns |-> <<>>, rows |-> <<>>]

EmptyZip == [columns |-> <<>>, members |-> <<>>]

\* the page loaded, the button not yet pressed
InitRun ==
    /\ pc = "idle"
    /\ done = <<>>
    /\ raised = None
    /\ folder = None
    /\ urls = [estab |-> None, simples |-> None]
    /\ zips = [estab |-> EmptyZip, simples |-> EmptyZip]
    /\ estab = EmptyTable
    /\ simples = EmptyTable
    /\ estab_mun = EmptyTable
    /\ cnae_col = None
    /\ simples_last = EmptyTable
    /\ out = EmptyTable
    /\ resumo = <<>>
    /\ shown = <<>>
    /\ top = <<>>

\* ---------------------------------------------------------- the run
\* if run_btn:
RunBtn ==
    /\ pc = "idle"
    /\ pc' = "resolve"
    /\ UNCHANGED <<world, done, raised, folder, urls, zips, estab, simples, estab_mun,
                   cnae_col, simples_last, out, resumo, shown, top>>

\* folder = rfb_latest_folder(); the GET may fail
Resolve ==
    /\ pc = "resolve"
    /\ \E ok \in BOOLEAN :
        LET r == IF ok THEN rfb_latest_folder(listing) ELSE <<"HTTPError">>
        IN IF IsException(r)
           THEN pc' = "error" /\ raised' = r /\ UNCHANGED <<done, folder>>
           ELSE pc' = "locate" /\ folder' = r /\ done' = Append(done, "resolve")
                /\ UNCHANGED raised
    /\ UNCHANGED <<world, urls, zips, estab, simples, estab_mun, cnae_col, simples_last,
                   out, resumo, shown, top>>

\* urls = rfb_month_urls(folder); st.stop() when one is missing
Locate ==
    /\ pc = "locate"
    /\ \E ok \in BOOLEAN :
        IF ~ok
        THEN pc' = "error" /\ raised' = <<"HTTPError">> /\ UNCHANGED <<done, urls>>
        ELSE LET u == rfb_month_urls(folder, month_hrefs)
             IN /\ urls' = u
                /\ raised' = raised
                /\ IF UrlsMissing(u)
                   THEN pc' = "stopped" /\ done' = done
                   ELSE pc' = "dl_estab" /\ done' = Append(done, "locate")
    /\ UNCHANGED <<world, folder, zips, estab, simples, estab_mun, cnae_col, simples_last,
                   out, resumo, shown, top>>

\* estab_zip = _http_get_bytes(urls["estab"], ...)
DownloadEstab ==
    /\ pc = "dl_estab"
    /\ \E ok \in BOOLEAN :
        IF ~ok
        THEN pc' = "error" /\ raised' = <<"HTTPError">> /\ UNCHANGED <<done, zips>>
        ELSE pc' = "dl_simples" /\ zips' = [zips EXCEPT !.estab = estab_zip]
             /\ done' = Append(done, "dl_estab") /\ UNCHANGED raised
    /\ UNCHANGED <<world, folder, urls, estab, simples, estab_mun, cnae_col, simples_last,
                   out, resumo, shown, top>>

\* simples_zip = _http_get_bytes(urls["simples"], ...)
DownloadSimples ==
    /\ pc = "dl_simples"
    /\ \E ok \in BOOLEAN :
        IF ~ok
        THEN pc' = "error" /\ raised' = <<"HTTPError">> /\ UNCHANGED <<done, zips>>
        ELSE pc' = "ext_estab" /\ zips' = [zips EXCEPT !.simples = simples_zip]
             /\ done' = Append(done, "dl_simples") /\ UNCHANGED raised
    /\ UNCHANGED <<world, folder, urls, estab, simples, estab_mun, cnae_col, simples_last,
                   out, resumo, shown, top>>

\* estab = _concat_csvs_from_zip(estab_zip, ["estabelec"], ...)
ExtractEstab ==
    /\ pc = "ext_estab"
    /\ IF NonePicked(zips.estab, <<<<"e","s","t","a","b","e","l","e","c">>>>)
       THEN pc' = "error" /\ raised' = <<"RuntimeError">> /\ UNCHANGED <<done, estab>>
       ELSE pc' = "ext_simples" /\ estab' = concat_csvs_from_zip(zips.estab, <<<<"e","s","t","a","b","e","l","e","c">>>>)
            /\ done' = Append(done, "ext_estab") /\ UNCHANGED raised
    /\ UNCHANGED <<world, folder, urls, zips, simples, estab_mun, cnae_col, simples_last,
                   out, resumo, shown, top>>

\* simples = _concat_csvs_from_zip(simples_zip, ["simples"], ...)
ExtractSimples ==
    /\ pc = "ext_simples"
    /\ IF NonePicked(zips.simples, <<<<"s","i","m","p","l","e","s">>>>)
       THEN pc' = "error" /\ raised' = <<"RuntimeError">> /\ UNCHANGED <<done, simples>>
       ELSE pc' = "validate" /\ simples' = concat_csvs_from_zip(zips.simples, <<<<"s","i","m","p","l","e","s">>>>)
            /\ done' = Append(done, "ext_simples") /\ UNCHANGED raised
    /\ UNCHANGED <<world, folder, urls, zips, estab, estab_mun, cnae_col, simples_last,
                   out, resumo, shown, top>>

\* the two column checks, each ending in st.stop()
Validate ==
    /\ pc = "validate"
    /\ IF MissingCols(estab, need_estab) # <<>> \/ MissingCols(simples, need_s) # <<>>
       THEN pc' = "stopped" /\ done' = done
       ELSE pc' = "filter" /\ done' = Append(done, "validate")
    /\ UNCHANGED <<world, raised, folder, urls, zips, estab, simples, estab_mun, cnae_col,
                   simples_last, out, resumo, shown, top>>

\* cnpj_completo, municipio, mask, estab_mun, the empty check, cnae_col
FilterStep ==
    /\ pc = "filter"
    /\ estab' = Prepare(estab)
    /\ estab_mun' = FilterMun(Prepare(estab), municipio_ibge, uf)
    /\ IF estab_mun'.rows = <<>>
       THEN pc' = "stopped" /\ done' = done /\ cnae_col' = cnae_col
       ELSE pc' = "join" /\ done' = Append(done, "filter") /\ cnae_col' = CnaeCol(estab_mun')
    /\ UNCHANGED <<world, raised, folder, urls, zips, simples, simples_last, out, resumo,
                   shown, top>>

\* simples_last, out
Join ==
    /\ pc = "join"
    /\ simples_last' = SimplesLast(simples)
    /\ out' = FillnaFalse(Merge(estab_mun, SimplesLast(simples)))
    /\ pc' = "aggregate"
    /\ done' = Append(done, "join")
    /\ UNCHANGED <<world, raised, folder, urls, zips, estab, simples, estab_mun, cnae_col,
                   resumo, shown, top>>

\* resumo and the three metrics
Aggregate ==
    /\ pc = "aggregate"
    /\ resumo' = Resumo(out)
    /\ shown' = Metrics(Resumo(out))
    /\ pc' = "chart"
    /\ done' = Append(done, "aggregate")
    /\ UNCHANGED <<world, raised, folder, urls, zips, estab, simples, estab_mun, cnae_col,
                   simples_last, out, top>>

\* if cnae_col: top = ...
Chart ==
    /\ pc = "chart"
    /\ IF cnae_col = None THEN top' = top
       ELSE top' \in TopOutcomes(out, cnae_col, top_n)
    /\ pc' = "done"
    /\ done' = Append(done, "chart")
    /\ UNCHANGED <<world, raised, folder, urls, zips, estab, simples, estab_mun, cnae_col,
                   simples_last, out, resumo, shown>>

Next ==
    \/ RunBtn
    \/ Resolve
    \/ Locate
    \/ DownloadEstab
    \/ DownloadSimples
    \/ ExtractEstab
    \/ ExtractSimples
    \/ Validate
    \/ FilterStep
    \/ Join
    \/ Aggregate
    \/ Chart


\* ------------------------------------------------------- the inputs
\* bounds of the inputs enumerated
MaxListing == 3
MaxMembers == 3
MaxSimples == 2
MaxEstab == 2
MaxPerCnae == 1

\* st.slider(..., min_value=5, ...)
TopNMin == 5

SeqsUpTo(S, lo, hi) == UNION {[1..k -> S] : k \in lo..hi}

\* the sidebar's defaults: Quixeramobim, CE
DefaultMunicipio == <<"2","3","1","1","3","0","9">>

DefaultUf == <<"C","E">>

EstabHeader == <<<<"C","N","P","J","_","B","A","S","I","C","O">>, <<"c","n","p","j","_","o","r","d","e","m">>, <<" ","c","n","p","j","_","d","v">>, <<"m","u","n","i","c","i","p","i","o">>, <<"U","F"," ">>,
                 <<"c","n","a","e","_","f","i","s","c","a","l","_","p","r","i","n","c","i","p","a","l">>>>

SimplesHeader == <<<<"c","n","p","j","_","b","a","s","i","c","o">>, <<"O","P","C","A","O","_","P","E","L","O","_","M","E","I">>, <<"d","a","t","a","_","o","p","c","a","o","_","m","e","i"," ">>, <<"d","a","t","a","_","e","x","c","l","u","s","a","o","_","m","e","i">>>>

EstabZipOf(rows) ==
    [columns |-> EstabHeader,
     members |-> <<[filename |-> <<"e","s","t","a","b","e","l","e","c","i","m","e","n","t","o","s",".","c","s","v">>, rows |-> rows]>>]

SimplesZipOf(rows) ==
    [columns |-> SimplesHeader,
     members |-> <<[filename |-> <<"S","i","m","p","l","e","s",".","C","S","V">>, rows |-> rows]>>]

\* the two establishments and the two Simples rows of the worked example
EstabA == <<<<"1","2","3","4","5","6","7","8">>, <<"0","0","0","1">>, <<"9","0">>, <<"2","3","1","1","3","0","9">>, <<"C","E">>, <<"4","7","1","1","3","0","2">>>>

EstabB == <<<<"8","7","6","5","4","3","2","1">>, <<"0","0","0","1">>, <<"1","1">>, <<"2","3","1","1","3","0","9">>, <<"C","E">>, <<"5","6","1","1","2","0","3">>>>

SimplesS == <<<<"1","2","3","4","5","6","7","8">>, <<"S">>, <<"2","0","2","4","-","0","1">>, NaN>>

SimplesN == <<<<"1","2","3","4","5","6","7","8">>, <<"N">>, <<"2","0","2","4","-","0","6">>, NaN>>

Listing0 == <<<<".",".","/">>, <<"2","0","2","4","-","0","5","/">>, <<"2","0","2","4","-","0","6","/">>>>

Month0 == <<<<".",".","/">>, <<"E","s","t","a","b","e","l","e","c","i","m","e","n","t","o","s","0",".","z","i","p">>, <<"S","i","m","p","l","e","s",".","z","i","p">>>>

InitSidebar == municipio_ibge = DefaultMunicipio /\ uf = DefaultUf /\ top_n = TopNMin

\* --- the run with every stage able to fail
Listings == {Listing0, <<<<".",".","/">>, <<"L","A","Y","O","U","T",".","p","d","f">>>>, <<<<"2","0","2","4","-","1","3","/">>, <<"2","0","2","4","-","0","6","/">>>>}

MonthPages == {Month0, <<<<"E","s","t","a","b","e","l","e","c","i","m","e","n","t","o","s","0",".","z","i","p">>>>, <<<<"s","i","m","p","l","e","s",".","z","i","p">>>>,
               <<<<"S","i","m","p","l","e","s",".","z","i","p">>, <<"E","S","T","A","B","E","L","E","C","I","M","E","N","T","O","S","1",".","Z","I","P">>, <<"E","s","t","a","b","e","l","e","c","i","m","e","n","t","o","s","0",".","z","i","p">>>>}

EstabZips ==
    {EstabZipOf(<<EstabA, EstabB>>),
     [columns |-> EstabHeader,
      members |-> <<[filename |-> <<"K","3","2","4","1",".","E","S","T","A","B","E","L","E">>, rows |-> <<EstabA, EstabB>>]>>],
     [columns |-> <<<<"c","n","p","j","_","b","a","s","i","c","o">>, <<"c","n","p","j","_","o","r","d","e","m">>, <<"c","n","p","j","_","d","v">>, <<"m","u","n","i","c","i","p","i","o">>, <<"e","s","t","a","d","o">>,
                    <<"c","n","a","e","_","f","i","s","c","a","l","_","p","r","i","n","c","i","p","a","l">>>>,
      members |-> <<[filename |-> <<"e","s","t","a","b","e","l","e","c","i","m","e","n","t","o","s",".","c","s","v">>, rows |-> <<EstabA, EstabB>>]>>]}

SimplesZips ==
    {SimplesZipOf(<<SimplesS, SimplesN>>),
     [columns |-> SimplesHeader,
      members |-> <<[filename |-> <<"l","e","i","a","m","e",".","c","s","v">>, rows |-> <<SimplesS, SimplesN>>]>>],
     [columns |-> <<<<"c","n","p","j","_","b","a","s","i","c","o">>, <<"o","p","c","a","o","_","p","e","l","o","_","s","i","m","p","l","e","s">>, <<"d","a","t","a","_","o","p","c","a","o","_","m","e","i">>,
                    <<"d","a","t","a","_","e","x","c","l","u","s","a","o","_","m","e","i">>>>,
      members |-> <<[filename |-> <<"s","i","m","p","l","e","s",".","c","s","v">>, rows |-> <<SimplesS, SimplesN>>]>>]}

Init ==
    /\ InitRun
    /\ listing \in Listings
    /\ month_hrefs \in MonthPages
    /\ estab_zip \in EstabZips
    /\ simples_zip \in SimplesZips
    /\ municipio_ibge \in {DefaultMunicipio, <<"2","3","0","4","4","0","0">>}
    /\ uf = DefaultUf
    /\ top_n = TopNMin

Spec == Init /\ [][Next]_vars

\* --- the directory page varied
Hrefs == {<<".",".","/">>, <<"2","0","2","4","-","0","5","/">>, <<"2","0","2","4","-","0","6">>, <<"2","0","2","3","-","1","2","/">>, <<"2","0","2","4","-","1","3","/">>, <<"2","0","2","4","-","5","/">>,
          <<"2","0","2","4","-","0","7","/","o","l","d">>}

InitResolver ==
    /\ InitRun
    /\ InitSidebar
    /\ listing \in SeqsUpTo(Hrefs, 1, MaxListing)
    /\ month_hrefs = Month0
    /\ estab_zip = EstabZipOf(<<EstabA, EstabB>>)
    /\ simples_zip = SimplesZipOf(<<SimplesS, SimplesN>>)

SpecResolver == InitResolver /\ [][Next]_vars

\* --- the members of the estabelecimentos archive varied; member k holds
\* one row, whose cnpj_ordem is k
MemberNames == {<<"e","s","t","a","b","e","l","e","c","i","m","e","n","t","o","s",".","c","s","v">>, <<"D","I","R","/","E","S","T","A","B","E","L","E","C","1",".","C","S","V">>, <<"e","s","t","a","b","e","l","e","c","2",".","t","x","t">>,
                <<"e","s","t","a","b","e","l","e","c","/","l","e","i","a","m","e",".","c","s","v">>, <<"x","e","s","t","a","b","e","l","e","c",".","c","s","v">>, <<"E","s","t","a","b","e","l","e","c","i","m","e","n","t","o","s">>}

MemberRow(k) == <<<<"1","2","3","4","5","6","7","8">>, <<Alphabet[Ord("0") + k]>>, <<"9","0">>, <<"2","3","1","1","3","0","9">>, <<"C","E">>, <<"4","7","1","1","3","0","2">>>>

InitExtract ==
    /\ InitRun
    /\ InitSidebar
    /\ listing = Listing0
    /\ month_hrefs = Month0
    /\ \E names \in SeqsUpTo(MemberNames, 1, MaxMembers) :
         estab_zip = [columns |-> EstabHeader,
                      members |-> [k \in 1..Len(names) |->
                                    [filename |-> names[k], rows |-> <<MemberRow(k)>>]]]
    /\ simples_zip = SimplesZipOf(<<SimplesS, SimplesN>>)

SpecExtract == InitExtract /\ [][Next]_vars

\* --- the Simples table varied
SimplesRows ==
    {<<b, f, d, NaN>> : b \in {<<"1","2","3","4","5","6","7","8">>, <<"8","7","6","5","4","3","2","1">>}, f \in {<<"S">>, <<"s">>, <<"N">>},
                        d \in {<<"2","0","2","4","-","0","1">>, <<"2","0","2","4","-","0","6">>, NaN}}
        \cup {<<<<"1","2","3","4","5","6","7","8">>, NaN, <<"2","0","2","4","-","0","6">>, NaN>>}

InitDedup ==
    /\ InitRun
    /\ InitSidebar
    /\ listing = Listing0
    /\ month_hrefs = Month0
    /\ estab_zip = EstabZipOf(<<EstabA, EstabB>>)
    /\ \E rows \in SeqsUpTo(SimplesRows, 1, MaxSimples) : simples_zip = SimplesZipOf(rows)

SpecDedup == InitDedup /\ [][Next]_vars

\* --- the establishments varied, against three Simples tables
EstabRows ==
    {<<b, o, <<"9","0">>, <<"2","3","1","1","3","0","9">>, u, <<"4","7","1","1","3","0","2">>>> :
        b \in {<<"1","2","3","4","5","6","7","8">>, <<"8","7","6","5","4","3","2","1">>}, o \in {<<"0","0","0","1">>, <<"1">>, NaN},
        u \in {<<"C","E">>, <<"c","e">>, <<"S","P">>}}

SimplesTables == {<<SimplesS, SimplesN>>, <<SimplesN>>,
                  <<<<<<"8","7","6","5","4","3","2","1">>, <<"S">>, NaN, NaN>>, SimplesN, SimplesS>>}

InitJoin ==
    /\ InitRun
    /\ InitSidebar
    /\ listing = Listing0
    /\ month_hrefs = Month0
    /\ \E rows \in SeqsUpTo(EstabRows, 1, MaxEstab) : estab_zip = EstabZipOf(rows)
    /\ \E rows \in SimplesTables : simples_zip = SimplesZipOf(rows)

SpecJoin == InitJoin /\ [][Next]_vars

\* --- the CNAE column varied: each raw value on 0..MaxPerCnae rows, every
\* row an MEI (or, for the tables of at most one row, none)
CnaeRaw == <<<<"4","7","1","1","3","0","2">>, <<"5","6","1","1","2","0","3">>, <<"9","6","0","2","5","0","1">>, <<"4","7","8","1","4","0","0">>, <<" ","4","5","2","0","0","0","1"," ">>, NaN, <<" ">>>>

CnaeRows(n) ==
    Flatten([k \in 1..Len(CnaeRaw) |->
        [i \in 1..n[k] |-> <<<<"1","2","3","4","5","6","7","8">>, <<"0","0","0","1">>, <<"9","0">>, <<"2","3","1","1","3","0","9">>, <<"C","E">>, CnaeRaw[k]>>]])

InitTop ==
    /\ InitRun
    /\ municipio_ibge = DefaultMunicipio
    /\ uf = DefaultUf
    /\ top_n \in {TopNMin, TopNMin + 1}
    /\ listing = Listing0
    /\ month_hrefs = Month0
    /\ \E n \in [1..Len(CnaeRaw) -> 0..MaxPerCnae] :
         estab_zip = EstabZipOf(CnaeRows(n))
    /\ \E f \in {<<"S">>, <<"N">>} :
         /\ f = <<"N">> => Len(estab_zip.members[1].rows) <= 1
         /\ simples_zip = SimplesZipOf(<<<<<<"1","2","3","4","5","6","7","8">>, f, <<"2","0","2","4","-","0","1">>, NaN>>>>)

SpecTop == InitTop /\ [][Next]_vars

\* ------------------------------------------------------- properties
AfterJoin == pc \in {"aggregate", "chart", "done"}

AfterAggregate == pc \in {"chart", "done"}

IsMeiOf(t, i) == Cell(t, t.rows[i], <<"i","s","_","m","e","i">>)

MeiRows(t) == {i \in 1..Len(t.rows) : IsMeiOf(t, i) = True}

\* the raw Simples rows whose cnpj_basico is that of row i of the joined table
SimplesRowsFor(i) ==
    {k \in 1..Len(simples.rows) :
        Cell(simples, simples.rows[k], <<"c","n","p","j","_","b","a","s","i","c","o">>) = Cell(out, out.rows[i], <<"c","n","p","j","_","b","a","s","i","c","o">>)}

\* C1: the left join onto the deduplicated Simples table has exactly the rows
\* of the filtered establishments table, each extended, in order, and is_mei
\* is True or False on every joined row, never missing.
C1_JoinTotal ==
    AfterJoin =>
        /\ Len(out.rows) = Len(estab_mun.rows)
        /\ \A i \in 1..Len(out.rows) :
            /\ i <= Len(estab_mun.rows)
            /\ SubSeq(out.rows[i], 1, Len(estab_mun.columns)) = estab_mun.rows[i]
            /\ IsMeiOf(out, i) \in {True, False}

\* a join in which one establishment has several Simples rows and another has none
C1_Witness ==
    /\ AfterJoin
    /\ \E i, j \in 1..Len(out.rows) :
        /\ Cardinality(SimplesRowsFor(i)) >= 2
        /\ IsMeiOf(out, i) = True
        /\ SimplesRowsFor(j) = {}
        /\ IsMeiOf(out, j) = False

\* C2: in every row of resumo, total_mei <= total_estab and perc_mei is a
\* number between 0 and 1.
C2_RatioInvariant ==
    \A k \in 1..Len(resumo) :
        /\ resumo[k].total_mei <= resumo[k].total_estab
        /\ resumo[k].perc_mei.finite
        /\ resumo[k].perc_mei.e4 >= 0
        /\ resumo[k].perc_mei.e4 <= 10000

\* C9: a run that reaches the summary has exactly one row in resumo; its
\* total_estab is the number of joined rows, its total_mei the number of them
\* with is_mei, and the metrics shown are these two numbers.
C9_OneSummaryRow ==
    AfterAggregate =>
        /\ Len(resumo) = 1
        /\ resumo[1].total_estab = Len(out.rows)
        /\ resumo[1].total_mei = Cardinality(MeiRows(out))
        /\ shown.total_estab = Len(out.rows)
        /\ shown.total_mei = Cardinality(MeiRows(out))

\* C10: filtering the municipality and then joining, as the run does, gives
\* the table that joining all establishments and then filtering gives.
C10_FilterJoinCommute ==
    AfterJoin =>
        out = FilterMun(FillnaFalse(Merge(estab, simples_last)), municipio_ibge, uf)

\* a run in which the filter removed an establishment that has a Simples row
\* and kept an MEI
C10_Witness ==
    /\ AfterJoin
    /\ MeiRows(out) # {}
    /\ \E i \in 1..Len(estab.rows) :
        /\ ~Mask(estab, estab.rows[i], municipio_ibge, uf)
        /\ \E k \in 1..Len(simples_last.rows) :
            simples_last.rows[k][1] = Cell(estab, estab.rows[i], <<"c","n","p","j","_","b","a","s","i","c","o">>)

\* the opt-in date as a number of months, for the dates written YYYY-MM
DateMonths(d) == 12 * YearOf(d) + MonthOf(d)

\* the raw Simples row has the flag S in either case
OptedIn(r) == r[2] \in {<<"S">>, <<"s">>}

C4_DedupIdempotent ==
    AfterJoin =>
        /\ SimplesLast(simples_last) = simples_last
        /\ \A i, j \in 1..Len(simples_last.rows) :
            simples_last.rows[i][1] = simples_last.rows[j][1] => i = j

\* a Simples table with two rows of one cnpj_basico, deduplicated to one
C4_Witness ==
    /\ AfterJoin
    /\ Len(simples.rows) >= 2
    /\ Len(simples_last.rows) = 1
    /\ simples_last.rows[1][5] = False

\* ---- fail fast
StageOrder == <<"resolve", "locate", "dl_estab", "dl_simples", "ext_estab", "ext_simples",
                "validate", "filter", "join", "aggregate", "chart">>

Completed(stage) == \E i \in 1..Len(done) : done[i] = stage

\* what the pages and archives must hold for each stage to succeed
HasPeriodDir == \E i \in 1..Len(listing) : IsPeriodHref(listing[i])

HasBothArchives ==
    /\ \E i \in 1..Len(month_hrefs) : MatchesZip(month_hrefs[i], <<"e","s","t","a","b","e","l","e","c","i","m","e","n","t","o">>)
    /\ \E i \in 1..Len(month_hrefs) : MatchesZip(month_hrefs[i], <<"s","i","m","p","l","e","s">>)

HasMember(zip, prefix) ==
    \E i \in 1..Len(zip.members) :
        /\ EndsWith(Lower(zip.members[i].filename), <<".","c","s","v">>)
        /\ StartsWith(Lower(Basename(zip.members[i].filename)), prefix)

HasColumns(zip, need) ==
    \A k \in 1..Len(need) :
        \E i \in 1..Len(zip.columns) : Lower(Strip(zip.columns[i])) = need[k]

\* C5: the stages complete in the order of the run and none is skipped; a
\* stage completes only if what it needs is there (a period directory, both
\* archive links, a matching member in each archive, the required columns);
\* resumo and the metrics exist only once resolve, locate, both downloads,
\* both extractions, the column check, the filter and the join have completed;
\* and a run that raised or stopped has produced nothing and takes no further step.
C5_FailFast ==
    /\ done = SubSeq(StageOrder, 1, Len(done))
    /\ Completed("resolve") => HasPeriodDir
    /\ Completed("locate") => HasBothArchives
    /\ Completed("ext_estab") => HasMember(estab_zip, <<"e","s","t","a","b","e","l","e","c">>)
    /\ Completed("ext_simples") => HasMember(simples_zip, <<"s","i","m","p","l","e","s">>)
    /\ Completed("validate") =>
        HasColumns(estab_zip, need_estab) /\ HasColumns(simples_zip, need_s)
    /\ (resumo # <<>> \/ shown # <<>>) => Len(done) >= 10 /\ out.rows # <<>>
    /\ ~Completed("aggregate") => resumo = <<>> /\ shown = <<>>
    /\ pc \in {"error", "stopped"} =>
        /\ resumo = <<>>
        /\ shown = <<>>
        /\ top = <<>>
        /\ ~ENABLED Next
    /\ pc = "error" <=> raised # None

\* a run stopped at the column check, after both extractions
C5_Witness ==
    /\ pc = "stopped"
    /\ Len(done) = 6
    /\ ~HasColumns(simples_zip, need_s)
    /\ resumo = <<>>

\* ---- the resolver
\* the labels of the hrefs that match the directory pattern
MatchingLabels == {PeriodOf(listing[i]) : i \in {j \in 1..Len(listing) : IsPeriodHref(listing[j])}}

\* those that name a calendar month
ValidLabels == {p \in MatchingLabels : MonthOf(p) \in 1..12 /\ YearOf(p) >= 1}

\* the resolver ran on the page it fetched: it returned or it raised
ResolverReturned == Completed("resolve")

ResolverRaised == pc = "error" /\ done = <<>> /\ raised # <<"HTTPError">>

\* the label is the latest of the set; labels of one width compare as text
IsLatestOf(p, labels) == p \in labels /\ \A q \in labels : ~StrLess(p, q)

ExtractorReturned == pc = "ext_simples"

ExtractorRaised == pc = "error" /\ Len(done) = 4 /\ raised = <<"RuntimeError">>

\* the rows of the members k of the archive that satisfy Wanted, in order
RowsOfMembers(Wanted(_)) ==
    Flatten([k \in 1..Len(estab_zip.members) |->
        IF Wanted(estab_zip.members[k].filename) THEN estab_zip.members[k].rows ELSE <<>>])

\* the base filename starts with estabelec, in any case
BaseHasPrefix(name) == StartsWith(Lower(Basename(name)), <<"e","s","t","a","b","e","l","e","c">>)

\* the member names of the model that end in .csv, in any case
IsCsvName(name) ==
    name \in {<<"e","s","t","a","b","e","l","e","c","i","m","e","n","t","o","s",".","c","s","v">>, <<"D","I","R","/","E","S","T","A","B","E","L","E","C","1",".","C","S","V">>, <<"e","s","t","a","b","e","l","e","c","/","l","e","i","a","m","e",".","c","s","v">>,
              <<"x","e","s","t","a","b","e","l","e","c",".","c","s","v">>}

\* C8, as stated: the table holds the rows of exactly the members whose base
\* filename starts with the prefix, whatever their directory and extension,
\* and the extractor raises exactly when there is no such member.
C8_PrefixOnly ==
    /\ ExtractorReturned => estab.rows = RowsOfMembers(BaseHasPrefix)
    /\ (ExtractorReturned \/ ExtractorRaised) =>
        (ExtractorRaised <=>
            \A k \in 1..Len(estab_zip.members) : ~BaseHasPrefix(estab_zip.members[k].filename))

\* C8, amended: the table holds the rows of exactly the members whose name
\* ends in .csv (in any case) and whose base filename starts with the prefix
\* (in any case, whatever the directory), in archive order; the extractor
\* raises exactly when there is no such member.
C8_CsvWithPrefix ==
    /\ ExtractorReturned =>
        estab.rows = RowsOfMembers(LAMBDA name : IsCsvName(name) /\ BaseHasPrefix(name))
    /\ (ExtractorReturned \/ ExtractorRaised) =>
        (ExtractorRaised <=>
            \A k \in 1..Len(estab_zip.members) :
                ~(IsCsvName(estab_zip.members[k].filename)
                    /\ BaseHasPrefix(estab_zip.members[k].filename)))

\* two members read, one in a directory and in upper case, and a member
\* with the prefix and another extension left out
C8_Witness ==
    /\ ExtractorReturned
    /\ Len(estab.rows) = 2
    /\ \E k \in 1..Len(estab_zip.members) : estab_zip.members[k].filename = <<"D","I","R","/","E","S","T","A","B","E","L","E","C","1",".","C","S","V">>
    /\ \E k \in 1..Len(estab_zip.members) : estab_zip.members[k].filename = <<"e","s","t","a","b","e","l","e","c","2",".","t","x","t">>

\* ---- the CNAE ranking
\* the category of row i of the joined table
LabelOfRow(i) == CnaeLabel(Cell(out, out.rows[i], cnae_col))

MeiCategories == {LabelOfRow(i) : i \in MeiRows(out)}

CountOf(c) == Cardinality({i \in MeiRows(out) : LabelOfRow(i) = c})

\* where the category first occurs in the joined table
FirstRowOf(c) == CHOOSE i \in MeiRows(out) : LabelOfRow(i) = c /\ \A j \in MeiRows(out) : LabelOfRow(j) = c => i <= j

MinOf(a, b) == IF a < b THEN a ELSE b

Charted == pc = "done" /\ cnae_col # None

\* C7, as stated: at most min(N, categories) entries, in descending order of
\* count, categories of equal count in their input order; empty without MEIs.
C7_DescendingStable ==
    Charted =>
        /\ Len(top) <= MinOf(top_n, Cardinality(MeiCategories))
        /\ \A i, j \in 1..Len(top) : i < j =>
            /\ top[i].count >= top[j].count
            /\ top[i].count = top[j].count => FirstRowOf(top[i].cnae) < FirstRowOf(top[j].cnae)
        /\ MeiRows(out) = {} => top = <<>>

\* C7, amended: exactly min(N, categories) entries, each a category of the
\* MEI rows with its number of rows, no category twice, no category left out
\* that has more rows than one kept, in ascending order of count (the order
\* the horizontal bar chart plots bottom-up); the order of categories of equal
\* count is not fixed; empty without MEIs.
C7_AscendingTopN ==
    Charted =>
        /\ Len(top) = MinOf(top_n, Cardinality(MeiCategories))
        /\ \A i \in 1..Len(top) :
            /\ top[i].cnae \in MeiCategories
            /\ top[i].count = CountOf(top[i].cnae)
        /\ \A i, j \in 1..Len(top) : i < j =>
            /\ top[i].cnae # top[j].cnae
            /\ top[i].count <= top[j].count
        /\ \A c \in MeiCategories :
            (\A i \in 1..Len(top) : top[i].cnae # c) =>
                \A i \in 1..Len(top) : CountOf(c) <= top[i].count
        /\ MeiRows(out) = {} => top = <<>>

\* more categories than the slider allows, the ranking cut to N and rising
C7_Witness ==
    /\ Charted
    /\ Cardinality(MeiCategories) > top_n
    /\ Len(top) = top_n
    /\ top[1].count < top[Len(top)].count
====
